---- MODULE Spec2Model ----
(***************************************************************************)
(* Model of ftpforcer.py: the FTPBruteForcer searcher object, its two      *)
(* search coordinators (brute_force_cpu: flat, brute_force_hybrid:         *)
(* batched), the ThreadPoolExecutor tasks that run try_credentials, and    *)
(* the combination generator generate_combinations_cpu.                    *)
(*                                                                         *)
(* Values.  A credential is a pair <<username, password>>; Python's None   *)
(* is the empty tuple <<>>, so that "if result:" is result # <<>>.         *)
(* Usernames are the tokens 1..MaxUsers, passwords the tokens              *)
(* 11..10+MaxPasswords.                                                    *)
(***************************************************************************)
EXTENDS Integers, Sequences, FiniteSets, TLC

\* ------------------------------------------------------------------ bounds
\* Longest username list and password list handed to a search, and the
\* largest number of pairs in their cross product.
MaxUsers == 2
MaxPasswords == 2
MaxPairs == 4
\* Largest max_workers (the smallest is -MaxNegWorkers) and batch_size tried.
MaxWorkers == 2
MaxNegWorkers == 1
MaxBatch == 2
\* Number of credentials the target accepts (size of the test double's set).
MaxValid == 2
\* Number of search invocations made on the one searcher object.
MaxRuns == 2
\* The same number in the specification with fairness.
MaxFairRuns == 1
\* Longest list and largest max_combinations handed to a direct call of
\* generate_combinations_cpu.
MaxGenLen == 2
MaxGenCap == 5
\* The default of generate_combinations_cpu's max_combinations parameter is
\* 1000000 in the source (line 34).  The model keeps the parameter and its
\* default but scales the default down to a value that the cross product of
\* MaxUsers x MaxPasswords tokens can exceed, as a cross product of more than
\* 1000000 pairs exceeds the source's.
DEFAULT_MAX_COMBINATIONS == 3

\* ------------------------------------------------------------------ values
None == <<>>
UserTokens == 1..MaxUsers
PasswordTokens == {10 + k : k \in 1..MaxPasswords}
\* The credentials that occur in some search of at most MaxPairs pairs: the
\* pair of the u-th username and the p-th password occurs when u * p <= MaxPairs.
Credentials ==
  {c \in UserTokens \X PasswordTokens : c[1] * (c[2] - 10) <= MaxPairs}

Min(a, b) == IF a <= b THEN a ELSE b

\* Lists of at most n tokens drawn from S (repetitions allowed).
SeqsUpTo(S, n) == UNION {[1..k -> S] : k \in 0..n}

\* The wordlists handed to a search: the first nu usernames, the first np
\* passwords, without repetitions.
UserList(nu) == [k \in 1..nu |-> k]
PasswordList(np) == [k \in 1..np |-> 10 + k]

\* ------------------------------------------------------------------- state
VARIABLES
  found,        \* self.found
  result,       \* self.result
  pc,           \* position of the caller's thread: "idle" (no call in
                \* progress), a position inside a search, or "returned"
  mode,         \* "cpu" | "hybrid": which search method is running
  usernames,    \* arguments of the running search
  passwords,
  max_workers,
  batch_size,
  valid,        \* the credentials the target (self.host) accepts, fixed
                \* from the first search on
  combinations, \* local: the list of pairs the search works through
  total,        \* local: len(combinations)
  i,            \* local: enumerate counter (cpu) / batch offset (hybrid)
  local_result, \* local "result" of the coordinator loop (future.result())
  futures,      \* the tasks submitted so far in this invocation
  executors,    \* number of ThreadPoolExecutor objects constructed
  progress,     \* the progress values printed, in order
  ret,          \* value returned by the last finished invocation (None = <<>>)
  raised,       \* the last finished invocation ended in an exception
  faulted,      \* an attempt of this invocation ended in a fault other than
                \* a rejected login (connection error, timeout, ...)
  runs,         \* number of invocations started on this searcher
  writes,       \* number of assignments to self.result since construction
  gen_args,     \* arguments of the last direct generate_combinations_cpu call
  gen_out,      \* its return value
  exit_status   \* exit status of the command-line process, -1 while it runs

vars == <<found, result, pc, mode, usernames, passwords, max_workers,
          batch_size, valid, combinations, total, i, local_result, futures,
          executors, progress, ret, raised, faulted, runs, writes, gen_args,
          gen_out, exit_status>>

searcher == <<found, result, writes>>
args == <<mode, usernames, passwords, max_workers, batch_size, valid>>
gen == <<gen_args, gen_out>>

\* ---------------------------------------------------- combination sources
\* generate_combinations_cpu (lines 34-41): the nested loops, with the
\* position (ui, pi) of the pair about to be appended and the list so far.
RECURSIVE gen_loop(_, _, _, _, _, _)
gen_loop(us, ps, max_combinations, ui, pi, acc) ==
  IF ui > Len(us) THEN acc                                      \* line 41
  ELSE IF pi > Len(ps) THEN gen_loop(us, ps, max_combinations, ui + 1, 1, acc)
  ELSE LET acc2 == Append(acc, <<us[ui], ps[pi]>>)              \* line 38
       IN  IF Len(acc2) >= max_combinations THEN acc2           \* lines 39-40
           ELSE gen_loop(us, ps, max_combinations, ui, pi + 1, acc2)

\* generate_combinations_cpu with an empty password list replaced by one
\* blank password (token 0), as "for password in passwords or ['']" would do.
generate_combinations_cpu_blank(us, ps, max_combinations) ==
  gen_loop(us, IF ps = <<>> THEN <<0>> ELSE ps, max_combinations, 1, 1, <<>>)

generate_combinations_cpu(us, ps, max_combinations) ==
  gen_loop(us, ps, max_combinations, 1, 1, <<>>)

\* list(itertools.product(usernames, passwords)) (line 58): every pair,
\* the rightmost list advancing fastest.
product(us, ps) ==
  [k \in 1..(Len(us) * Len(ps)) |->
     <<us[((k - 1) \div Len(ps)) + 1], ps[((k - 1) % Len(ps)) + 1]>>]

\* GPU_AVAILABLE (lines 8-12): cupy is not importable.
GPU_AVAILABLE == FALSE

\* generate_combinations_gpu (lines 43-45) without cupy: the cpu generator
\* with its default max_combinations.
generate_combinations_gpu(us, ps) ==
  generate_combinations_cpu(us, ps, DEFAULT_MAX_COMBINATIONS)

\* ------------------------------------------------------------------- tasks
\* One executor.submit(self.try_credentials, user, pwd) (lines 64, 106): the
\* future and its task.  state is "pending" (in the executor's work queue),
\* "started" (taken by a worker thread, about to run line 23), "inflight"
\* (connecting and logging in, lines 26-29), "finished" or "cancelled".
\* batch is the offset of the batch the task belongs to (0 in flat mode);
\* idx is the position of its pair in combinations.
submit(cred, idx, batch) ==
  [cred |-> cred, idx |-> idx, batch |-> batch, state |-> "pending",
   res |-> None, exc |-> FALSE, attempted |-> FALSE, yielded |-> FALSE]

Tasks == 1..Len(futures)
InBatch(b) == {k \in Tasks : futures[k].batch = b}
Active(b) == {k \in InBatch(b) : futures[k].state \in {"started", "inflight"}}
Unfinished(b) ==
  {k \in InBatch(b) : futures[k].state \in {"pending", "started", "inflight"}}

\* The outcome of ftp.login(username, password) against the target (lines
\* 26-32): the pair when the target accepts it, None when the attempt raises.
login(cred) == IF cred \in valid THEN cred ELSE None

\* How an attempt for cred can end (lines 26-29): "ok" when connect, login
\* and quit go through; otherwise the login is rejected (ftplib.error_perm)
\* or something else is raised (connection refused, socket timeout, ...).
Outcomes(cred) ==
  IF cred \in valid THEN {"ok"} ELSE {"error_perm", "error"}

\* The try statement with an except clause for ftplib.error_perm only: any
\* other exception leaves try_credentials and is stored in the future.
try_except_error_perm(o, cred) ==
  IF o = "ok" THEN [res |-> login(cred), exc |-> FALSE]
  ELSE IF o = "error_perm" THEN [res |-> None, exc |-> FALSE]
  ELSE [res |-> None, exc |-> TRUE]

\* The try statement of try_credentials (lines 25-32): the pair when nothing
\* is raised (line 30); the bare except turns whatever is raised into None.
try_except(o, cred) ==
  IF o = "ok" THEN [res |-> login(cred), exc |-> FALSE]
  ELSE [res |-> None, exc |-> FALSE]

\* A pool that starts a thread for every queued work item, whatever
\* max_workers is.
worker_run_unbounded(k) ==
  /\ k \in Tasks
  /\ futures[k].state = "pending"
  /\ \A j \in InBatch(futures[k].batch) : j < k => futures[j].state # "pending"
  /\ futures' = [futures EXCEPT ![k].state = "started"]
  /\ UNCHANGED <<searcher, args, gen, pc, combinations, total, i, local_result,
                 executors, progress, ret, raised, faulted, runs, exit_status>>

\* ThreadPoolExecutor worker thread: takes the oldest queued work item of its
\* executor; at most max_workers threads exist per executor.
worker_run(k) ==
  /\ k \in Tasks
  /\ futures[k].state = "pending"
  /\ \A j \in InBatch(futures[k].batch) : j < k => futures[j].state # "pending"
  /\ Cardinality(Active(futures[k].batch)) < max_workers
  /\ futures' = [futures EXCEPT ![k].state = "started"]
  /\ UNCHANGED <<searcher, args, gen, pc, combinations, total, i, local_result,
                 executors, progress, ret, raised, faulted, runs, exit_status>>

\* try_credentials without lines 23-24: the attempt is made whatever the
\* value of self.found.
try_credentials_check_no_flag(k) ==
  /\ k \in Tasks
  /\ futures[k].state = "started"
  /\ futures' = [futures EXCEPT ![k].state = "inflight",
                                ![k].attempted = TRUE]
  /\ UNCHANGED <<searcher, args, gen, pc, combinations, total, i, local_result,
                 executors, progress, ret, raised, faulted, runs, exit_status>>

\* try_credentials, lines 23-24: the read of self.found.
try_credentials_check(k) ==
  /\ k \in Tasks
  /\ futures[k].state = "started"
  /\ futures' = IF found
                THEN [futures EXCEPT ![k].state = "finished", ![k].res = None]
                ELSE [futures EXCEPT ![k].state = "inflight",
                                     ![k].attempted = TRUE]
  /\ UNCHANGED <<searcher, args, gen, pc, combinations, total, i, local_result,
                 executors, progress, ret, raised, faulted, runs, exit_status>>

\* try_credentials_attempt against a target that never answers a pair it
\* does not accept, with no timeout on the connection: such an attempt never
\* returns.
try_credentials_attempt_no_timeout(k) ==
  /\ k \in Tasks
  /\ futures[k].state = "inflight"
  /\ futures[k].cred \in valid
  /\ \E o \in Outcomes(futures[k].cred) :
       LET out == try_except(o, futures[k].cred)
       IN  /\ futures' = [futures EXCEPT ![k].state = "finished",
                                         ![k].res = out.res,
                                         ![k].exc = out.exc]
           /\ faulted' = (faulted \/ o = "error")
  /\ UNCHANGED <<searcher, args, gen, pc, combinations, total, i, local_result,
                 executors, progress, ret, raised, runs, exit_status>>

\* try_credentials, lines 25-32: the attempt ends and the task returns.
try_credentials_attempt(k) ==
  /\ k \in Tasks
  /\ futures[k].state = "inflight"
  /\ \E o \in Outcomes(futures[k].cred) :
       LET out == try_except(o, futures[k].cred)
       IN  /\ futures' = [futures EXCEPT ![k].state = "finished",
                                         ![k].res = out.res,
                                         ![k].exc = out.exc]
           /\ faulted' = (faulted \/ o = "error")
  /\ UNCHANGED <<searcher, args, gen, pc, combinations, total, i, local_result,
                 executors, progress, ret, raised, runs, exit_status>>

\* ------------------------------------------------------------- flat search
\* Arguments a search is started with.
ListLengths ==
  {l \in (0..MaxUsers) \X (0..MaxPasswords) : l[1] * l[2] <= MaxPairs}
WorkerCounts == (0 - MaxNegWorkers)..MaxWorkers
BatchSizes == 1..MaxBatch
ValidSets == {v \in SUBSET Credentials : Cardinality(v) <= MaxValid}
\* The target a search may be started against.
Targets == IF runs = 0 THEN ValidSets ELSE {valid}

\* The interval at which the flat loop prints its counter (line 80).
PROGRESS_EVERY == 100

\* executor.shutdown(wait=False, cancel_futures=True) (line 70): every work
\* item still queued is cancelled.
cancel_futures(fs) ==
  [k \in 1..Len(fs) |->
     IF fs[k].state = "pending" THEN [fs[k] EXCEPT !.state = "cancelled"]
     ELSE fs[k]]

\* brute_force_cpu, lines 55-66: build the list, construct the executor
\* (ThreadPoolExecutor raises ValueError for max_workers <= 0) and submit
\* every pair.
brute_force_cpu(nu, np, mw, v) ==
  /\ pc = "idle"
  /\ runs < MaxRuns
  /\ valid' = v
  /\ runs' = runs + 1
  /\ mode' = "cpu"
  /\ usernames' = UserList(nu)
  /\ passwords' = PasswordList(np)
  /\ max_workers' = mw
  /\ batch_size' = 0
  /\ combinations' = product(usernames', passwords')
  /\ total' = Len(combinations')
  /\ i' = 0
  /\ local_result' = None
  /\ progress' = <<>>
  /\ ret' = None
  /\ gen_args' = <<>>
  /\ gen_out' = <<>>
  /\ faulted' = FALSE
  /\ IF mw <= 0
     THEN /\ raised' = TRUE
          /\ executors' = 0
          /\ futures' = <<>>
          /\ pc' = "returned"
     ELSE /\ raised' = FALSE
          /\ executors' = 1
          /\ futures' = [k \in 1..total' |-> submit(combinations'[k], k, 0)]
          /\ pc' = "cpu_loop"
  /\ UNCHANGED <<searcher, exit_status>>

\* cpu_loop without line 75: a success is recorded and returned but
\* self.found is never set.
cpu_loop_no_flag ==
  /\ pc = "cpu_loop"
  /\ \/ \E k \in InBatch(0) :
          /\ futures[k].state = "finished"
          /\ ~futures[k].yielded
          /\ i' = i + 1
          /\ IF found
             THEN /\ futures' = cancel_futures([futures EXCEPT ![k].yielded = TRUE])
                  /\ pc' = "cpu_exit"
                  /\ UNCHANGED <<found, local_result, progress, raised>>
             ELSE IF futures[k].exc
             THEN /\ futures' = [futures EXCEPT ![k].yielded = TRUE]
                  /\ raised' = TRUE
                  /\ pc' = "cpu_exit"
                  /\ UNCHANGED <<found, local_result, progress>>
             ELSE /\ futures' = [futures EXCEPT ![k].yielded = TRUE]
                  /\ local_result' = futures[k].res
                  /\ UNCHANGED raised
                  /\ IF futures[k].res # None
                     THEN /\ pc' = "cpu_record"
                          /\ UNCHANGED <<found, progress>>
                     ELSE /\ progress' = IF i' % PROGRESS_EVERY = 0
                                         THEN Append(progress, i')
                                         ELSE progress
                          /\ UNCHANGED <<found, pc>>
     \/ /\ \A k \in InBatch(0) : futures[k].yielded
        /\ pc' = "cpu_exit"
        /\ UNCHANGED <<found, futures, i, local_result, progress, raised>>
  /\ UNCHANGED <<result, writes, args, gen, combinations, total, executors,
                 ret, faulted, runs, exit_status>>

\* brute_force_cpu, lines 68-81: one iteration over as_completed, which
\* yields each finished future once, in completion order, and ends when all
\* have been yielded.
cpu_loop ==
  /\ pc = "cpu_loop"
  /\ \/ \E k \in InBatch(0) :
          /\ futures[k].state = "finished"
          /\ ~futures[k].yielded
          /\ i' = i + 1
          /\ IF found
             THEN /\ futures' = cancel_futures([futures EXCEPT ![k].yielded = TRUE])
                  /\ pc' = "cpu_exit"
                  /\ UNCHANGED <<found, local_result, progress, raised>>
             ELSE IF futures[k].exc
             THEN /\ futures' = [futures EXCEPT ![k].yielded = TRUE]
                  /\ raised' = TRUE
                  /\ pc' = "cpu_exit"
                  /\ UNCHANGED <<found, local_result, progress>>
             ELSE /\ futures' = [futures EXCEPT ![k].yielded = TRUE]
                  /\ local_result' = futures[k].res
                  /\ UNCHANGED raised
                  /\ IF futures[k].res # None
                     THEN /\ found' = TRUE
                          /\ pc' = "cpu_record"
                          /\ UNCHANGED progress
                     ELSE /\ progress' = IF i' % PROGRESS_EVERY = 0
                                         THEN Append(progress, i')
                                         ELSE progress
                          /\ UNCHANGED <<found, pc>>
     \/ /\ \A k \in InBatch(0) : futures[k].yielded
        /\ pc' = "cpu_exit"
        /\ UNCHANGED <<found, futures, i, local_result, progress, raised>>
  /\ UNCHANGED <<result, writes, args, gen, combinations, total, executors,
                 ret, faulted, runs, exit_status>>

\* cpu_record without line 76: the success is returned but self.result is
\* not assigned.
cpu_record_no_result ==
  /\ pc = "cpu_record"
  /\ pc' = "cpu_return"
  /\ UNCHANGED <<searcher, args, gen, combinations, total, i, local_result,
                 futures, executors, progress, ret, raised, faulted, runs, exit_status>>

\* brute_force_cpu, line 76: self.result = result, after self.found = True.
cpu_record ==
  /\ pc = "cpu_record"
  /\ result' = local_result
  /\ writes' = writes + 1
  /\ pc' = "cpu_return"
  /\ UNCHANGED <<found, args, gen, combinations, total, i, local_result,
                 futures, executors, progress, ret, raised, faulted, runs, exit_status>>

\* brute_force_cpu, line 78: return result.  Leaving the with block joins
\* the worker threads (shutdown(wait=True)), which first run what is queued.
cpu_return ==
  /\ pc = "cpu_return"
  /\ Unfinished(0) = {}
  /\ ret' = local_result
  /\ pc' = "returned"
  /\ UNCHANGED <<searcher, args, gen, combinations, total, i, local_result,
                 futures, executors, progress, raised, faulted, runs, exit_status>>

\* brute_force_cpu, lines 83-84: the loop ended or broke; the with block is
\* left as above and the search returns None.  An exception raised by
\* future.result() (line 73) leaves the with block the same way.
cpu_exit ==
  /\ pc = "cpu_exit"
  /\ Unfinished(0) = {}
  /\ ret' = None
  /\ pc' = "returned"
  /\ UNCHANGED <<searcher, args, gen, combinations, total, i, local_result,
                 futures, executors, progress, raised, faulted, runs, exit_status>>

\* ---------------------------------------------------------- batched search
\* brute_force_hybrid, lines 86-97: generate the list (cupy absent: the cpu
\* generator with its default max_combinations).
brute_force_hybrid(nu, np, bs, mw, v) ==
  /\ pc = "idle"
  /\ runs < MaxRuns
  /\ valid' = v
  /\ runs' = runs + 1
  /\ mode' = "hybrid"
  /\ usernames' = UserList(nu)
  /\ passwords' = PasswordList(np)
  /\ max_workers' = mw
  /\ batch_size' = bs
  /\ combinations' =
       IF GPU_AVAILABLE
       THEN generate_combinations_gpu(usernames', passwords')
       ELSE generate_combinations_cpu(usernames', passwords',
                                      DEFAULT_MAX_COMBINATIONS)
  /\ total' = Len(combinations')
  /\ i' = 0
  /\ local_result' = None
  /\ progress' = <<>>
  /\ ret' = None
  /\ raised' = FALSE
  /\ faulted' = FALSE
  /\ executors' = 0
  /\ futures' = <<>>
  /\ gen_args' = <<>>
  /\ gen_out' = <<>>
  /\ pc' = "hyb_for"
  /\ UNCHANGED <<searcher, exit_status>>

\* combinations[i:i+batch_size] (line 103), submitted in order (lines 106-107).
batch_futures(cs, off, bs) ==
  [k \in 1..(Min(off + bs, Len(cs)) - off) |-> submit(cs[off + k], off + k, off)]

\* brute_force_hybrid, lines 99-107 and 123-124: the head of the for loop.
\* i is the next value of range(0, total, batch_size).
hyb_for ==
  /\ pc = "hyb_for"
  /\ IF i >= total \/ found
     THEN /\ ret' = None
          /\ pc' = "returned"
          /\ UNCHANGED <<futures, executors, raised>>
     ELSE IF max_workers <= 0
     THEN /\ raised' = TRUE
          /\ pc' = "returned"
          /\ UNCHANGED <<futures, executors, ret>>
     ELSE /\ executors' = executors + 1
          /\ futures' = futures \o batch_futures(combinations, i, batch_size)
          /\ pc' = "hyb_loop"
          /\ UNCHANGED <<ret, raised>>
  /\ UNCHANGED <<searcher, args, gen, combinations, total, i, local_result,
                 progress, faulted, runs, exit_status>>

\* hyb_loop that stops collecting after the first completed future of the
\* batch instead of examining them all.
hyb_loop_first_only ==
  /\ pc = "hyb_loop"
  /\ \/ \E k \in InBatch(i) :
          /\ \A j \in InBatch(i) : ~futures[j].yielded
          /\ futures[k].state = "finished"
          /\ futures' = [futures EXCEPT ![k].yielded = TRUE]
          /\ IF found
             THEN /\ pc' = "hyb_exit"
                  /\ UNCHANGED <<found, local_result, raised>>
             ELSE IF futures[k].exc
             THEN /\ raised' = TRUE
                  /\ pc' = "hyb_return"
                  /\ UNCHANGED <<found, local_result>>
             ELSE /\ local_result' = futures[k].res
                  /\ UNCHANGED raised
                  /\ IF futures[k].res # None
                     THEN /\ found' = TRUE
                          /\ pc' = "hyb_record"
                     ELSE UNCHANGED <<found, pc>>
     \/ /\ \E k \in InBatch(i) : futures[k].yielded
        /\ pc' = "hyb_exit"
        /\ UNCHANGED <<found, futures, local_result, raised>>
  /\ UNCHANGED <<result, writes, args, gen, combinations, total, i, executors,
                 progress, ret, faulted, runs, exit_status>>

\* brute_force_hybrid, lines 109-118: one iteration over as_completed.
hyb_loop ==
  /\ pc = "hyb_loop"
  /\ \/ \E k \in InBatch(i) :
          /\ futures[k].state = "finished"
          /\ ~futures[k].yielded
          /\ futures' = [futures EXCEPT ![k].yielded = TRUE]
          /\ IF found
             THEN /\ pc' = "hyb_exit"
                  /\ UNCHANGED <<found, local_result, raised>>
             ELSE IF futures[k].exc
             THEN /\ raised' = TRUE
                  /\ pc' = "hyb_return"
                  /\ UNCHANGED <<found, local_result>>
             ELSE /\ local_result' = futures[k].res
                  /\ UNCHANGED raised
                  /\ IF futures[k].res # None
                     THEN /\ found' = TRUE
                          /\ pc' = "hyb_record"
                     ELSE UNCHANGED <<found, pc>>
     \/ /\ \A k \in InBatch(i) : futures[k].yielded
        /\ pc' = "hyb_exit"
        /\ UNCHANGED <<found, futures, local_result, raised>>
  /\ UNCHANGED <<result, writes, args, gen, combinations, total, i, executors,
                 progress, ret, faulted, runs, exit_status>>

\* hyb_record that leaves the inner loop with break instead of returning the
\* result (line 118 missing).
hyb_record_no_return ==
  /\ pc = "hyb_record"
  /\ result' = local_result
  /\ writes' = writes + 1
  /\ pc' = "hyb_exit"
  /\ UNCHANGED <<found, args, gen, combinations, total, i, local_result,
                 futures, executors, progress, ret, raised, faulted, runs, exit_status>>

\* brute_force_hybrid, line 116: self.result = result, after self.found = True.
hyb_record ==
  /\ pc = "hyb_record"
  /\ result' = local_result
  /\ writes' = writes + 1
  /\ pc' = "hyb_return"
  /\ UNCHANGED <<found, args, gen, combinations, total, i, local_result,
                 futures, executors, progress, ret, raised, faulted, runs, exit_status>>

\* brute_force_hybrid, line 118: return result, through the with block's exit
\* (as does an exception raised by future.result(), line 113).
hyb_return ==
  /\ pc = "hyb_return"
  /\ Unfinished(i) = {}
  /\ ret' = local_result
  /\ pc' = "returned"
  /\ UNCHANGED <<searcher, args, gen, combinations, total, i, local_result,
                 futures, executors, progress, raised, faulted, runs, exit_status>>

\* The with block's exit joins the batch's workers (shutdown(wait=True)).
executor_exit(b) == Unfinished(b) = {}

\* hyb_exit that prints i + batch_size without the min against total
\* (line 120).
hyb_exit_no_min ==
  /\ pc = "hyb_exit"
  /\ executor_exit(i)
  /\ progress' = Append(progress, i + batch_size)
  /\ i' = i + batch_size
  /\ pc' = "hyb_for"
  /\ UNCHANGED <<searcher, args, gen, combinations, total, local_result,
                 futures, executors, ret, raised, faulted, runs, exit_status>>

\* brute_force_hybrid, lines 105 and 120-121: the batch's with block is left,
\* the progress is printed and the for loop advances.
hyb_exit ==
  /\ pc = "hyb_exit"
  /\ executor_exit(i)
  /\ progress' = Append(progress, Min(i + batch_size, total))
  /\ i' = i + batch_size
  /\ pc' = "hyb_for"
  /\ UNCHANGED <<searcher, args, gen, combinations, total, local_result,
                 futures, executors, ret, raised, faulted, runs, exit_status>>

\* ------------------------------------------------- combination source call
\* A direct call generate_combinations_cpu(usernames, passwords,
\* max_combinations) on the searcher.  The method reads and writes no field
\* of the searcher, so a call made before the first search stands for a call
\* at any time.
call_generate_combinations_cpu(us, ps, mc) ==
  /\ pc = "idle"
  /\ runs = 0
  /\ gen_args' = <<us, ps, mc>>
  /\ gen_out' = generate_combinations_cpu(us, ps, mc)
  /\ pc' = "returned"
  /\ UNCHANGED <<searcher, args, combinations, total, i, local_result,
                 futures, executors, progress, ret, raised, faulted, runs, exit_status>>

\* ------------------------------------------------------------------ return
\* The caller has the finished call's outcome (lines 41, 78, 84, 118, 124, or
\* the ValueError); the call's arguments and locals no longer exist.
return_to_caller ==
  /\ pc = "returned"
  /\ pc' = "idle"
  /\ mode' = "none"
  /\ usernames' = <<>>
  /\ passwords' = <<>>
  /\ max_workers' = 0
  /\ batch_size' = 0
  /\ combinations' = <<>>
  /\ total' = 0
  /\ i' = 0
  /\ local_result' = None
  /\ futures' = <<>>
  /\ executors' = 0
  /\ progress' = <<>>
  /\ ret' = None
  /\ raised' = FALSE
  /\ faulted' = FALSE
  /\ gen_args' = <<>>
  /\ gen_out' = <<>>
  /\ UNCHANGED <<searcher, valid, runs, exit_status>>

\* ------------------------------------------------------ command-line entry
\* The default of brute_force_hybrid's batch_size parameter is 1000 in the
\* source (line 86); main never passes another one.  The model scales it
\* down to a value the lists of a search can exceed.
DEFAULT_BATCH_SIZE == 2

\* Exit status of the interpreter: 0 when main returns, 1 when an exception
\* leaves it (traceback).
EXIT_OK == 0
EXIT_TRACEBACK == 1

\* main, lines 183-190: one searcher is built and one search is made on it,
\* brute_force_cpu(usernames, passwords, args.threads) or
\* brute_force_hybrid(usernames, passwords, max_workers=args.threads); its
\* return value is dropped and main returns, or the ValueError leaves main.
main_exit ==
  /\ pc = "returned"
  /\ runs = 1
  /\ mode \in {"cpu", "hybrid"}
  /\ mode = "hybrid" => batch_size = DEFAULT_BATCH_SIZE
  /\ exit_status' = IF raised THEN EXIT_TRACEBACK ELSE EXIT_OK
  /\ pc' = "exited"
  /\ UNCHANGED <<searcher, args, gen, combinations, total, i, local_result,
                 futures, executors, progress, ret, raised, faulted, runs>>

\* ------------------------------------------------------------ specification
\* __init__ (lines 15-20): found = False, result = None; nothing has run.
\* The credentials the target accepts are chosen when the first search starts
\* and stay the same for the later searches of the same searcher.
Init ==
  /\ found = FALSE
  /\ result = None
  /\ writes = 0
  /\ pc = "idle"
  /\ mode = "none"
  /\ usernames = <<>>
  /\ passwords = <<>>
  /\ max_workers = 0
  /\ batch_size = 0
  /\ valid = {}
  /\ combinations = <<>>
  /\ total = 0
  /\ i = 0
  /\ local_result = None
  /\ futures = <<>>
  /\ executors = 0
  /\ progress = <<>>
  /\ ret = None
  /\ raised = FALSE
  /\ faulted = FALSE
  /\ runs = 0
  /\ gen_args = <<>>
  /\ gen_out = <<>>
  /\ exit_status = 0 - 1

\* A call is made only when none is in progress; the arguments are drawn
\* from the bounded sets above.
Next ==
  \/ /\ pc = "idle"
     /\ \E l \in ListLengths, mw \in WorkerCounts, v \in Targets :
          brute_force_cpu(l[1], l[2], mw, v)
  \/ cpu_loop
  \/ cpu_record
  \/ cpu_return
  \/ cpu_exit
  \/ /\ pc = "idle"
     /\ \E l \in ListLengths, bs \in BatchSizes, mw \in WorkerCounts, v \in Targets :
          brute_force_hybrid(l[1], l[2], bs, mw, v)
  \/ hyb_for
  \/ hyb_loop
  \/ hyb_record
  \/ hyb_return
  \/ hyb_exit
  \/ \E k \in Tasks : worker_run(k)
  \/ \E k \in Tasks : try_credentials_check(k)
  \/ \E k \in Tasks : try_credentials_attempt(k)
  \/ /\ pc = "idle"
     /\ runs = 0
     /\ \E us \in SeqsUpTo(UserTokens, MaxGenLen),
           ps \in SeqsUpTo(PasswordTokens, MaxGenLen),
           mc \in (0 - 1)..MaxGenCap :
          call_generate_combinations_cpu(us, ps, mc)
  \/ return_to_caller
  \/ main_exit

Spec == Init /\ [][Next]_vars

\* The steps of the thread that runs a search, and those of the pool's
\* worker threads.
coordinator ==
  \/ cpu_loop
  \/ cpu_record
  \/ cpu_return
  \/ cpu_exit
  \/ hyb_for
  \/ hyb_loop
  \/ hyb_record
  \/ hyb_return
  \/ hyb_exit
workers ==
  \/ \E k \in Tasks : worker_run(k)
  \/ \E k \in Tasks : try_credentials_check(k)
  \/ \E k \in Tasks : try_credentials_attempt(k)

\* The searches of a caller that makes at most MaxFairRuns of them and
\* nothing else.
FairNext ==
  \/ /\ pc = "idle"
     /\ runs < MaxFairRuns
     /\ \E l \in ListLengths, mw \in WorkerCounts, v \in Targets :
          brute_force_cpu(l[1], l[2], mw, v)
  \/ /\ pc = "idle"
     /\ runs < MaxFairRuns
     /\ \E l \in ListLengths, bs \in BatchSizes, mw \in WorkerCounts, v \in Targets :
          brute_force_hybrid(l[1], l[2], bs, mw, v)
  \/ coordinator
  \/ workers
  \/ return_to_caller

\* The searches under a fair scheduler: a thread that can take a step
\* eventually takes one, and an attempt in flight ends (the FTP connection
\* is made with timeout=self.timeout, line 26).  Nothing obliges the caller
\* to start a search or to make another one.
FairSpec ==
  Init /\ [][FairNext]_vars /\ WF_vars(coordinator) /\ WF_vars(workers)

\* ------------------------------------------------------------------ claims
\* A search invocation has returned or raised.
Completed == pc = "returned" /\ runs >= 1

\* The cross product of the input lists, username-major.
cross == product(usernames, passwords)

\* Positions of the list cs whose pair the target accepts.
ValidIn(cs) == {k \in 1..Len(cs) : cs[k] \in valid}

\* The last value of the search's counter: the enumerate counter in flat
\* mode, the last printed progress (0 when none was printed) in batched mode.
TestedCount ==
  IF mode = "cpu" THEN i
  ELSE IF progress = <<>> THEN 0 ELSE progress[Len(progress)]

\* C1: on a fresh searcher (its first search), when exactly one pair of the
\* cross product of the input lists is accepted and max_workers is between 1
\* and the number of combinations, the search (flat or batched, any
\* batch_size >= 1, any interleaving) returns exactly that pair.
C1_UniquePairReturned ==
  (/\ Completed
   /\ runs = 1
   /\ max_workers \in 1..Len(cross)
   /\ Cardinality(ValidIn(cross)) = 1)
  => /\ ~raised
     /\ \A k \in ValidIn(cross) : ret = cross[k]

\* C2: when no pair of the combination space is accepted, the search returns
\* None, its counter ends at total, and every combination has been attempted
\* exactly once.
C2_ExhaustionCountsAll ==
  (/\ Completed
   /\ max_workers >= 1
   /\ ValidIn(combinations) = {})
  => /\ ~raised
     /\ ret = None
     /\ TestedCount = total
     /\ Len(futures) = total
     /\ \A k \in Tasks : futures[k].idx = k /\ futures[k].attempted

\* C3: first success wins: found never goes back to false, a recorded result
\* is never changed by a later step, and self.result is assigned at most once
\* over the life of the searcher.
C3_FirstSuccessWins ==
  [][/\ found => found'
     /\ result # None => result' = result
     /\ writes' <= 1]_vars

\* C3 witness: a result is recorded and another attempt has completed with a
\* different accepted pair.
C3_Witness ==
  /\ found
  /\ result # None
  /\ \E k \in Tasks :
       /\ futures[k].state = "finished"
       /\ futures[k].res # None
       /\ futures[k].res # result

\* C4: in every reachable state, found = true implies that result holds a
\* credential.
C4_FoundImpliesResult == found => result # None

\* C5: a search started with max_workers <= 0 ends in the configuration error
\* (ValueError) and no attempt was submitted.
C5_ConfigError ==
  (Completed /\ max_workers <= 0) => (raised /\ futures = <<>>)

\* C6: with an empty usernames or passwords list the generator returns the
\* empty list, and a search (max_workers >= 1) builds no combination, raises
\* nothing, submits no attempt and returns None.
C6_EmptyInput ==
  /\ (gen_args # <<>> /\ (gen_args[1] = <<>> \/ gen_args[2] = <<>>))
       => gen_out = <<>>
  /\ (runs >= 1 /\ max_workers >= 1 /\ (usernames = <<>> \/ passwords = <<>>))
       => /\ combinations = <<>>
          /\ futures = <<>>
          /\ ~raised
          /\ ret = None

\* C6 witness: a batched search over an empty usernames list and a non-empty
\* passwords list has returned.
C6_Witness ==
  /\ Completed
  /\ mode = "hybrid"
  /\ max_workers >= 1
  /\ usernames = <<>>
  /\ passwords # <<>>

\* C7: with an empty combination list the search (max_workers >= 1) returns
\* None and constructs no worker pool, in flat and in batched mode.
C7_NoPoolOnEmpty ==
  (runs >= 1 /\ max_workers >= 1 /\ combinations = <<>>)
  => (ret = None /\ ~raised /\ executors = 0)

\* C8: for non-empty lists and max_combinations >= 0, the generator returns
\* the first min(|usernames| x |passwords|, max_combinations) pairs of the
\* username-major enumeration.
C8_GenerateCount ==
  (/\ gen_args # <<>>
   /\ gen_args[1] # <<>>
   /\ gen_args[2] # <<>>
   /\ gen_args[3] >= 0)
  => LET all == product(gen_args[1], gen_args[2])
     IN  gen_out = SubSeq(all, 1, Min(Len(all), gen_args[3]))

\* C9: when no pair is accepted, the batches dispatched by a batched search
\* (fresh searcher, max_workers >= 1) hold, in order, exactly the pairs the
\* flat search attempts, each once, in batches of at most batch_size pairs.
C9_BatchesPartition ==
  (/\ Completed
   /\ mode = "hybrid"
   /\ runs = 1
   /\ max_workers >= 1
   /\ ValidIn(cross) = {})
  => /\ Len(futures) = Len(cross)
     /\ \A k \in Tasks : futures[k].idx = k /\ futures[k].cred = cross[k]
     /\ \A k \in Tasks : Cardinality(InBatch(futures[k].batch)) <= batch_size
     /\ \A j, k \in Tasks : j < k => futures[j].batch <= futures[k].batch

\* C10: in batched mode, whenever a task of a later batch exists, every task
\* of every earlier batch has finished and the coordinator has examined its
\* result and found no success; so attempts of two batches are never in
\* flight together.
C10_BatchOrder ==
  \A j, k \in Tasks :
    futures[j].batch < futures[k].batch
    => /\ futures[j].state = "finished"
       /\ futures[j].yielded
       /\ futures[j].res = None

\* C10 witness: an attempt of a second batch is in flight.
C10_Witness ==
  \E j, k \in Tasks :
    /\ futures[j].batch < futures[k].batch
    /\ futures[k].state = "inflight"

\* C11: every search invocation starts from found = false and an empty
\* result: as long as the coordinator has examined no future of the running
\* search, found is false and result is None.
C11_FreshSearchState ==
  (/\ pc \in {"cpu_loop", "hyb_for", "hyb_loop"}
   /\ \A k \in Tasks : ~futures[k].yielded)
  => (~found /\ result = None)

\* C12: in flat mode, once the first success is recorded (found set, result
\* written) the work still queued is cancelled: no task is left in the
\* executor's queue for the pool to run.
C12_CancelOnSuccess ==
  (mode = "cpu" /\ pc = "cpu_return")
  => \A k \in Tasks : futures[k].state # "pending"

\* C13: in batched mode, once the coordinator has collected a success in a
\* batch, no task of a later batch exists (none is submitted or attempted)
\* and the search returns that credential.
C13_StopAfterSuccess ==
  mode = "hybrid"
  => \A j \in Tasks :
       (futures[j].yielded /\ futures[j].res # None)
       => /\ \A k \in Tasks : futures[k].batch <= futures[j].batch
          /\ pc = "returned" => ret = futures[j].res

\* C13 witness: a batched search has returned a credential found in a batch
\* that is not the last one of its list.
C13_Witness ==
  /\ Completed
  /\ mode = "hybrid"
  /\ ret # None
  /\ i + batch_size < total

\* C16: a task that begins executing when found is already true does not
\* contact the target: its next step finishes it with None and without an
\* attempt; and an attempt only ever begins in a step that read found = false.
C16_NoContactAfterFound ==
  [][\A k \in Tasks :
       k \in 1..Len(futures')
       => /\ (futures[k].state = "started" /\ found /\ futures'[k] # futures[k])
               => /\ futures'[k].state = "finished"
                  /\ futures'[k].res = None
                  /\ ~futures'[k].attempted
          /\ (~futures[k].attempted /\ futures'[k].attempted) => ~found]_vars

\* C16 witness: in the first search of the searcher, found is set, one task
\* has finished without an attempt and another one, which read found = false
\* before it was set, is still in flight.
C16_Witness ==
  /\ runs = 1
  /\ found
  /\ \E k \in Tasks : futures[k].state = "finished" /\ ~futures[k].attempted
  /\ \E j \in Tasks : futures[j].state = "inflight"

\* C18: in batched mode the printed progress values never decrease and never
\* exceed total, and the value just printed equals the number of
\* combinations whose attempts have completed: the pairs of all batches
\* dispatched so far, each attempted and finished.
C18_ProgressCumulative ==
  mode = "hybrid"
  => /\ \A n \in 1..Len(progress) :
          /\ progress[n] <= total
          /\ n > 1 => progress[n - 1] <= progress[n]
     /\ (pc = "hyb_for" /\ progress # <<>>)
          => /\ progress[Len(progress)] = Len(futures)
             /\ progress[Len(progress)] =
                  Cardinality({k \in Tasks : /\ futures[k].state = "finished"
                                             /\ futures[k].attempted})

\* C18 witness: two batches have been reported and the second one was the
\* short last batch of the list.
C18_Witness ==
  /\ mode = "hybrid"
  /\ pc = "hyb_for"
  /\ Len(progress) >= 2
  /\ progress[Len(progress)] = total
  /\ i > total

\* C19: at every moment of a search, flat or batched, the number of attempts
\* in flight against the target is at most max_workers, however many
\* combinations have been submitted.
C19_BoundedInFlight ==
  Tasks # {}
  => Cardinality({k \in Tasks : futures[k].state = "inflight"}) <= max_workers

\* C19 witness: max_workers attempts are in flight while a further submitted
\* task waits in the queue.
C19_Witness ==
  /\ Cardinality({k \in Tasks : futures[k].state = "inflight"}) = max_workers
  /\ max_workers >= 2
  /\ \E k \in Tasks : futures[k].state = "pending"

\* C20: whenever a search has returned a credential c, c is the pair of one
\* of the submitted tasks, that task made its attempt and the target accepted
\* it, and found = true and result = c; whenever the first search of a
\* searcher has returned None, found is false and result is None.
C20_SoundResult ==
  /\ (Completed /\ ret # None)
       => /\ found
          /\ result = ret
          /\ ret \in valid
          /\ \E k \in Tasks : /\ futures[k].cred = ret
                              /\ combinations[futures[k].idx] = ret
                              /\ futures[k].attempted
                              /\ futures[k].res = ret
  /\ (Completed /\ runs = 1 /\ ret = None)
       => (~found /\ result = None)

\* C20 witness: a flat search has returned a credential while the target
\* accepts another submitted pair as well.
C20_Witness ==
  /\ Completed
  /\ mode = "cpu"
  /\ ret # None
  /\ \E k \in Tasks : futures[k].cred \in valid /\ futures[k].cred # ret

\* C14: an attempt that ends without success (rejected login, connection
\* error, timeout or any other fault) is a failure of its own task only: the
\* task's result is None and its future holds no exception, the coordinator
\* (max_workers >= 1) never raises, and a search in which an attempt faulted
\* still collects the other attempts: it returns an accepted pair of its
\* list when there is one, and otherwise returns None after examining every
\* task.
C14_FailureIsolated ==
  (runs >= 1 /\ max_workers >= 1)
  => /\ ~raised
     /\ \A k \in Tasks :
          /\ ~futures[k].exc
          /\ (futures[k].state = "finished" /\ futures[k].cred \notin valid)
               => futures[k].res = None
     /\ (Completed /\ faulted)
          => IF ValidIn(combinations) # {}
             THEN ret # None /\ ret \in valid
             ELSE ret = None /\ \A k \in Tasks : futures[k].yielded

\* C14 witness: an attempt of a flat search ended in a fault and the search
\* has returned the accepted pair of another task.
C14_Witness ==
  /\ Completed
  /\ mode = "cpu"
  /\ faulted
  /\ ret # None
  /\ \E k \in Tasks : /\ futures[k].attempted
                      /\ futures[k].yielded
                      /\ futures[k].res = None

\* C15: the command-line entry point ends with distinguishable statuses: 0
\* when a pair was found, a status other than 0 when the search was
\* exhausted without a pair, and an error status (not 0) on a configuration
\* failure (threads <= 0).
C15_ExitStatuses ==
  pc = "exited"
  => /\ (ret # None) => exit_status = EXIT_OK
     /\ (ret = None /\ max_workers >= 1) => exit_status # EXIT_OK
     /\ (max_workers <= 0) => exit_status # EXIT_OK

\* C17: under fair scheduling, with every attempt ending, no search
\* (max_workers >= 1, batch_size >= 1; with max_workers <= 0 it ends in the
\* ValueError) stays inside its loops forever: the caller makes at most
\* MaxFairRuns invocations, and from some point on the coordinator is for ever
\* outside a search, so each one has returned.  When a search returns, no
\* task of it is left pending or in flight, and a None return without an
\* earlier success on the searcher comes after every task of the list has
\* finished.
C17_SearchReturns ==
  /\ <>[](pc \notin {"cpu_loop", "cpu_record", "cpu_return", "cpu_exit",
                     "hyb_for", "hyb_loop", "hyb_record", "hyb_return",
                     "hyb_exit"})
  /\ [](Completed
        => /\ \A k \in Tasks : futures[k].state \in {"finished", "cancelled"}
           /\ (ret = None /\ ~found /\ max_workers >= 1)
                => Len(futures) = total)

\* C17 witness: a flat search over more pairs than workers has returned a
\* credential, and a task that was still queued at the success has finished
\* without an attempt.
C17_Witness ==
  /\ Completed
  /\ mode = "cpu"
  /\ ret # None
  /\ Len(futures) > max_workers
  /\ \E k \in Tasks : futures[k].state = "finished" /\ ~futures[k].attempted

====
